---- MODULE Spec2Model ----
(***************************************************************************)
(* Model of src/tools/core.ts: the Project Name Filter and the three core  *)
(* tool handlers (core_list_project_teams, core_list_projects,             *)
(* core_get_identity_ids) registered by configureCoreTools.                *)
(*                                                                         *)
(* Each handler is an async function.  One action of the model is one      *)
(* resume segment of a handler: the code that runs from the settling of    *)
(* one awaited promise up to the next await (or up to the return).  The    *)
(* collaborators (connection provider, token provider, core-API client,    *)
(* fetch, Response.text, Response.json) are the environment: each awaited  *)
(* call either returns a value (possibly null) or throws.                  *)
(*                                                                         *)
(* JavaScript values:                                                      *)
(*   - a value that may be null/undefined is an Option: None or Some(v);   *)
(*   - a string is a TLA+ string, a list is a sequence;                    *)
(*   - an object that gets serialised is a sequence of <<key, Option>>     *)
(*     pairs in property order, all property values being strings here;    *)
(*   - a property of a response object that the code sets only on some     *)
(*     paths (isError) is a record field present only on those paths.      *)
(***************************************************************************)
EXTENDS Integers, Sequences, FiniteSets, TLC

VARIABLES tool, args, pc, mem, calls, rets, result, filterCall

vars == <<tool, args, pc, mem, calls, rets, result, filterCall>>

(***************************************************************************)
(* Bounds of the model.                                                    *)
(***************************************************************************)
MaxInv == 2             \* concurrent invocations in SpecConc
MaxTop == 2             \* supplied `top` ranges over 0..MaxTop
MaxSkip == 1            \* supplied `skip` ranges over 0..MaxSkip
MaxTeams == 3           \* short team lists have 0..MaxTeams teams
MaxProjects == 2        \* project lists returned to the handler
MaxIdentities == 2      \* identities in a parsed body
MaxFilterProjects == 3  \* project lists given to the filter alone

(***************************************************************************)
(* null / undefined and present values.                                    *)
(***************************************************************************)
None == <<>>
Some(v) == <<v>>

(***************************************************************************)
(* Strings.                                                                *)
(***************************************************************************)
UpperCaseLetters == "ABCDEFGHIJKLMNOPQRSTUVWXYZ"
LowerCaseLetters == "abcdefghijklmnopqrstuvwxyz"

CharAt(s, k) == SubSeq(s, k, k)

\* String.prototype.toLowerCase on one character (ASCII letters).
LowerChar(c) ==
    LET K == {k \in 1..26 : CharAt(UpperCaseLetters, k) = c}
    IN  IF K = {} THEN c ELSE CharAt(LowerCaseLetters, CHOOSE k \in K : TRUE)

RECURSIVE toLowerCase(_)
toLowerCase(s) ==
    IF Len(s) = 0 THEN ""
    ELSE LowerChar(CharAt(s, 1)) \o toLowerCase(SubSeq(s, 2, Len(s)))

\* String.prototype.includes
includes(s, sub) ==
    \E k \in 1..(Len(s) - Len(sub) + 1) : SubSeq(s, k, k + Len(sub) - 1) = sub

\* String.prototype.split(sep) for a one-character separator.
RECURSIVE SplitFrom(_, _, _)
SplitFrom(s, sep, acc) ==
    IF Len(s) = 0 THEN <<acc>>
    ELSE IF CharAt(s, 1) = sep
         THEN <<acc>> \o SplitFrom(SubSeq(s, 2, Len(s)), sep, "")
         ELSE SplitFrom(SubSeq(s, 2, Len(s)), sep, acc \o CharAt(s, 1))

split(s, sep) == SplitFrom(s, sep, "")

\* array[k] with a 0-based index: undefined when out of range.
Index0(a, k) == IF k + 1 \in 1..Len(a) THEN Some(a[k + 1]) ELSE None

\* `${v}` for a value that may be undefined.
Interpolate(v) == IF v = None THEN "undefined" ELSE v[1]

\* parts[lo] sep parts[lo+1] sep ... parts[hi]
RECURSIVE JoinRange(_, _, _, _)
JoinRange(parts, sep, lo, hi) ==
    IF lo > hi THEN ""
    ELSE IF lo = hi THEN parts[lo]
    ELSE LET mid == (lo + hi) \div 2
         IN  JoinRange(parts, sep, lo, mid) \o sep \o JoinRange(parts, sep, mid + 1, hi)

\* Array.prototype.join
Join(parts, sep) == JoinRange(parts, sep, 1, Len(parts))

(***************************************************************************)
(* Objects and JSON.stringify(value, null, 2).                             *)
(***************************************************************************)
\* obj.key (undefined when the object has no such property)
Prop(o, k) ==
    LET S == {n \in 1..Len(o) : o[n][1] = k}
    IN  IF S = {} THEN None ELSE o[CHOOSE n \in S : TRUE][2]

Quote(s) == "\"" \o s \o "\""

\* JSON.stringify leaves out the properties whose value is undefined.
SerialisedProps(o) == SelectSeq(o, LAMBDA kv : kv[2] # None)

JSONObject(o, indent) ==
    LET ps == SerialisedProps(o)
    IN  IF ps = <<>> THEN "{}"
        ELSE "{\n"
             \o Join([n \in 1..Len(ps) |->
                        indent \o "  " \o Quote(ps[n][1]) \o ": " \o Quote(ps[n][2][1])],
                     ",\n")
             \o "\n" \o indent \o "}"

JSONArray(a) ==
    IF a = <<>> THEN "[]"
    ELSE "[\n"
         \o Join([n \in 1..Len(a) |-> "  " \o JSONObject(a[n], "  ")], ",\n")
         \o "\n]"

\* JSON.stringify(v, null, 2) of a list of objects; of undefined it is
\* undefined, not a string.
JSONstringify(v) == IF v = None THEN None ELSE Some(JSONArray(v[1]))

(***************************************************************************)
(* Thrown values.                                                          *)
(***************************************************************************)
Error(message) == [instanceofError |-> TRUE, message |-> message]

\* a thrown value that is not an Error instance (a string, a plain object),
\* whether or not it has a `message` property
NonError(message) == [instanceofError |-> FALSE, message |-> message]

\* the TypeError the runtime raises on a property read of null/undefined
TypeError(property) ==
    Error("Cannot read properties of null (reading '" \o property \o "')")

Return(v) == [kind |-> "return", value |-> v]
Throw(e) == [kind |-> "throw", error |-> e]

(***************************************************************************)
(* Tool responses.                                                         *)
(***************************************************************************)
Success(text) == [content |-> <<[type |-> "text", text |-> text]>>]

Failure(text) == [content |-> <<[type |-> "text", text |-> text]>>, isError |-> TRUE]

\* variant: the message is read off any thrown value
errorMessageAlwaysMessage(error) == error.message

\* error instanceof Error ? error.message : "Unknown error occurred"
errorMessage(error) ==
    IF error.instanceofError THEN error.message ELSE "Unknown error occurred"

\* the catch block of a handler
Caught(prefix, error) == Failure(Some(prefix \o errorMessage(error)))

TeamsPrefix == "Error fetching project teams: "
ProjectsPrefix == "Error fetching projects: "
IdentitiesPrefix == "Error fetching identities: "

(***************************************************************************)
(* Project Name Filter.                                                    *)
(***************************************************************************)
\* variant: the comparison without the two toLowerCase calls
filterCaseSensitive(projects, projectNameFilter) ==
    SelectSeq(projects,
              LAMBDA project :
                  LET name == Prop(project, "name")
                  IN  name # None /\ includes(name[1], projectNameFilter))

\* projects.filter((project) =>
\*     project.name?.toLowerCase().includes(lowerCaseFilter))
filterProjectsByName(projects, projectNameFilter) ==
    LET lowerCaseFilter == toLowerCase(projectNameFilter)
    IN  SelectSeq(projects,
                  LAMBDA project :
                      LET name == Prop(project, "name")
                      IN  /\ name # None
                          /\ includes(toLowerCase(name[1]), lowerCaseFilter))

(***************************************************************************)
(* core_list_project_teams: what follows `await coreApi.getTeams(...)`.    *)
(***************************************************************************)
DefaultTop == 100
DefaultSkip == 0

\* `n || d` for an optional number (undefined and 0 are falsy)
OrDefault(n, d) == IF n = None \/ n[1] = 0 THEN d ELSE n[1]

\* variant: the final else branch merged into the complete-set branch
paginationInfoNoElse(resultCount, actualTop, actualSkip) ==
    "\nPagination info: Returned " \o ToString(resultCount) \o " teams"
    \o (IF actualSkip > 0
        THEN " (skipped first " \o ToString(actualSkip) \o ")" ELSE "")
    \o (IF resultCount = actualTop
        THEN ". There may be more teams - use 'skip="
             \o ToString(actualSkip + resultCount) \o "' to get the next batch."
        ELSE " (all teams in project).")

paginationInfo(resultCount, actualTop, actualSkip) ==
    "\nPagination info: Returned " \o ToString(resultCount) \o " teams"
    \o (IF actualSkip > 0
        THEN " (skipped first " \o ToString(actualSkip) \o ")" ELSE "")
    \o (IF resultCount = actualTop
        THEN ". There may be more teams - use 'skip="
             \o ToString(actualSkip + resultCount) \o "' to get the next batch."
        ELSE IF resultCount < actualTop /\ actualSkip = 0
        THEN " (all teams in project)."
        ELSE ".")

\* lines 40-66: the response once getTeams has returned `teams`
teamsResponse(a, teams) ==
    IF teams = None
    THEN Failure(Some("No teams found"))
    ELSE LET actualTop == OrDefault(a.top, DefaultTop)
             actualSkip == OrDefault(a.skip, DefaultSkip)
             resultCount == Len(teams[1])
         IN  Success(Some(JSONstringify(teams)[1]
                          \o paginationInfo(resultCount, actualTop, actualSkip)))

(***************************************************************************)
(* core_list_projects: what follows `await coreApi.getProjects(...)`.      *)
(***************************************************************************)
\* variant: the filter applied whether or not a filter string is supplied
filteredProjectAlwaysFilters(projects, projectNameFilter) ==
    filterProjectsByName(projects,
                         IF projectNameFilter = None THEN "" ELSE projectNameFilter[1])

\* projectNameFilter ? filterProjectsByName(projects, projectNameFilter) : projects
\* (undefined and "" are falsy)
filteredProject(projects, projectNameFilter) ==
    IF projectNameFilter # None /\ projectNameFilter[1] # ""
    THEN filterProjectsByName(projects, projectNameFilter[1])
    ELSE projects

\* lines 94-102: the response once getProjects has returned `projects`
projectsResponse(a, projects) ==
    IF projects = None
    THEN Failure(Some("No projects found"))
    ELSE Success(JSONstringify(Some(filteredProject(projects[1], a.projectNameFilter))))

(***************************************************************************)
(* core_get_identity_ids.                                                  *)
(***************************************************************************)
apiVersion == "7.2-preview.1"

\* connection.serverUrl.split("/")[3]
orgName(connection) == Index0(split(connection.serverUrl, "/"), 3)

baseUrl(connection) ==
    "https://vssps.dev.azure.com/" \o Interpolate(orgName(connection))
    \o "/_apis/identities"

\* new URLSearchParams({...}).toString(); the search filters of the model
\* hold no character that is percent-encoded
params(searchFilter) ==
    "api-version=" \o apiVersion \o "&searchFilter=General&filterValue="
    \o searchFilter

\* the argument of fetch
fetchRequest(connection, token, searchFilter) ==
    [url |-> baseUrl(connection) \o "?" \o params(searchFilter),
     headers |-> [Authorization |-> "Bearer " \o token.token,
                  ContentType |-> "application/json"]]

\* variant: the status left out of the message
httpErrorNoStatus(response, errorText) == Error("HTTP error: " \o errorText)

\* new Error(`HTTP ${response.status}: ${errorText}`)
httpError(response, errorText) ==
    Error("HTTP " \o ToString(response.status) \o ": " \o errorText)

\* variant: the remaining properties spread into the entry
trimIdentityKeepsAll(identity) ==
    << <<"id", Prop(identity, "id")>>,
       <<"displayName", Prop(identity, "providerDisplayName")>>,
       <<"descriptor", Prop(identity, "descriptor")>> >>
    \o SelectSeq(identity,
                 LAMBDA kv : kv[1] \notin {"id", "providerDisplayName", "descriptor"})

\* { id: identity.id, displayName: identity.providerDisplayName,
\*   descriptor: identity.descriptor }
trimIdentity(identity) ==
    << <<"id", Prop(identity, "id")>>,
       <<"displayName", Prop(identity, "providerDisplayName")>>,
       <<"descriptor", Prop(identity, "descriptor")>> >>

\* identities.value?.map(...): undefined when the body has no `value`
identitiesTrimmed(identities) ==
    IF "value" \in DOMAIN identities
    THEN Some([n \in 1..Len(identities.value) |-> trimIdentity(identities.value[n])])
    ELSE None

\* variant: the empty `value` test dropped
identitiesSoftFailureOnlyNull(identities) == identities = None

\* !identities || identities.value?.length === 0
noIdentities(identities) ==
    \/ identities = None
    \/ /\ "value" \in DOMAIN identities[1]
       /\ Len(identities[1].value) = 0

\* lines 147-161: the response once response.json() has returned `identities`
identitiesResponse(identities) ==
    IF noIdentities(identities)
    THEN Failure(Some("No identities found"))
    ELSE Success(JSONstringify(identitiesTrimmed(identities[1])))

(***************************************************************************)
(* The environment: the arguments a host may pass and the outcomes the     *)
(* collaborators may produce.  Domain lists them for one invocation        *)
(* studied alone, SmallDomain for invocations that run concurrently.       *)
(***************************************************************************)
RECURSIVE SeqsUpTo(_, _)
SeqsUpTo(S, n) ==
    IF n = 0 THEN {<<>>}
    ELSE LET shorter == SeqsUpTo(S, n - 1)
         IN  shorter \cup {Append(q, x) : q \in {r \in shorter : Len(r) = n - 1}, x \in S}

OptionOf(S) == {None} \cup {Some(x) : x \in S}

Team(n) == << <<"id", Some("t" \o ToString(n))>>,
              <<"name", Some("Team " \o ToString(n))>> >>

TeamList(n) == [k \in 1..n |-> Team(k)]

Project(id, name) == << <<"id", Some(id)>>, <<"name", name>> >>

\* a project without a name, and projects whose names differ in case
ProjectKinds ==
    {Project("p0", None), Project("p1", Some("Ab")), Project("p2", Some("b"))}

Alice == << <<"id", Some("1")>>, <<"providerDisplayName", Some("Alice")>>,
            <<"descriptor", Some("d1")>> >>

\* an identity with more properties than the three the handler keeps
Bob == << <<"id", Some("2")>>, <<"providerDisplayName", Some("Bob")>>,
          <<"descriptor", Some("d2")>>, <<"isActive", Some("true")>> >>

\* an identity without providerDisplayName (every property of IdentityBase
\* is optional)
Anonymous == << <<"id", Some("3")>>, <<"descriptor", Some("d3")>> >>

IdentityKinds == {Alice, Bob, Anonymous}

ThrownValues == {Error("boom"), Error(""), NonError("boom")}

Domain ==
    [tops         |-> OptionOf(0..MaxTop),
     skips        |-> OptionOf(0..MaxSkip),
     teams        |-> OptionOf({TeamList(n) : n \in (0..MaxTeams) \cup {DefaultTop}}),
     filters      |-> OptionOf({"", "a", "B"}),
     projectTops  |-> OptionOf({1}),
     projects     |-> OptionOf(SeqsUpTo(ProjectKinds, MaxProjects)),
     connections  |-> OptionOf({[serverUrl |-> "https://dev.azure.com/myorg"],
                                [serverUrl |-> "https://dev.azure.com"]}),
     tokens       |-> OptionOf({[token |-> "tok"]}),
     responses    |-> OptionOf({[ok |-> TRUE, status |-> 200],
                                [ok |-> FALSE, status |-> 404],
                                [ok |-> FALSE, status |-> 500]}),
     errorTexts   |-> {"", "Not Found"},
     bodies       |-> OptionOf({[count |-> 0]}
                               \cup {[count |-> Len(v), value |-> v] :
                                         v \in SeqsUpTo(IdentityKinds, MaxIdentities)}),
     thrown       |-> ThrownValues]

SmallDomain ==
    [tops         |-> {None},
     skips        |-> {Some(1)},
     teams        |-> OptionOf({TeamList(1)}),
     filters      |-> {Some("a")},
     projectTops  |-> {None},
     projects     |-> OptionOf({<<Project("p1", Some("Ab"))>>}),
     connections  |-> OptionOf({[serverUrl |-> "https://dev.azure.com/myorg"]}),
     tokens       |-> OptionOf({[token |-> "tok"]}),
     responses    |-> OptionOf({[ok |-> TRUE, status |-> 200],
                                [ok |-> FALSE, status |-> 404]}),
     errorTexts   |-> {"Not Found"},
     bodies       |-> OptionOf({[count |-> 1, value |-> <<Alice>>]}),
     thrown       |-> {Error("boom")}]

\* what an awaited call may do: return one of `values`, or throw
Outcomes(values, D) == {Return(v) : v \in values} \cup {Throw(e) : e \in D.thrown}

(***************************************************************************)
(* Invocations.  pc[i] is "idle" before the host invokes a tool in slot i, *)
(* then the name of the call the handler is awaiting, then "done".         *)
(* calls[i] lists the calls the invocation has made, rets[i] how each      *)
(* settled, result[i] the response handed to the host.                     *)
(***************************************************************************)
Invs == 1..MaxInv

IdleFilterCall == [state |-> "idle"]

Init ==
    /\ tool = [i \in Invs |-> "none"]
    /\ args = [i \in Invs |-> None]
    /\ pc = [i \in Invs |-> "idle"]
    /\ mem = [i \in Invs |-> [token |-> None, connection |-> None, response |-> None]]
    /\ calls = [i \in Invs |-> <<>>]
    /\ rets = [i \in Invs |-> <<>>]
    /\ result = [i \in Invs |-> None]
    /\ filterCall = IdleFilterCall

\* `await op(req)`: the call is made and the handler suspends
Await(i, op, req) ==
    /\ calls' = [calls EXCEPT ![i] = Append(@, [op |-> op, req |-> req])]
    /\ pc' = [pc EXCEPT ![i] = op]
    /\ UNCHANGED result

\* the handler returns `response` to the host
ReturnResponse(i, response) ==
    /\ pc' = [pc EXCEPT ![i] = "done"]
    /\ result' = [result EXCEPT ![i] = Some(response)]
    /\ UNCHANGED calls

\* the awaited call settles with outcome `o`
Settle(i, o) == rets' = [rets EXCEPT ![i] = Append(@, o)]

Prefix(t) ==
    CASE t = "core_list_project_teams" -> TeamsPrefix
      [] t = "core_list_projects" -> ProjectsPrefix
      [] t = "core_get_identity_ids" -> IdentitiesPrefix

\* the first statement of each handler's try block
FirstCall(t) ==
    IF t = "core_get_identity_ids" THEN "tokenProvider" ELSE "connectionProvider"

\* variant: the catch block starts the handler over
CatchRetries(i, error) ==
    /\ calls' = [calls EXCEPT ![i] = Append(@, [op |-> FirstCall(tool[i]), req |-> <<>>])]
    /\ pc' = [pc EXCEPT ![i] = FirstCall(tool[i])]
    /\ UNCHANGED result

\* catch (error) { ... return { content: [...], isError: true } }
Catch(i, error) == ReturnResponse(i, Caught(Prefix(tool[i]), error))

\* The host invokes a tool: the handler runs up to its first await.
Invoke(i, D) ==
    /\ pc[i] = "idle"
    /\ \E t \in {"core_list_project_teams", "core_list_projects", "core_get_identity_ids"} :
         /\ tool' = [tool EXCEPT ![i] = t]
         /\ \E a \in CASE t = "core_list_project_teams" ->
                            {[project |-> "proj", mine |-> None, top |-> tp, skip |-> sk] :
                                tp \in D.tops, sk \in D.skips}
                       [] t = "core_list_projects" ->
                            {[stateFilter |-> "wellFormed", top |-> tp, skip |-> None,
                              continuationToken |-> None, projectNameFilter |-> f] :
                                tp \in D.projectTops, f \in D.filters}
                       [] t = "core_get_identity_ids" ->
                            {[searchFilter |-> "alice"]} :
              args' = [args EXCEPT ![i] = Some(a)]
         /\ Await(i, FirstCall(t), <<>>)
    /\ UNCHANGED <<mem, rets, filterCall>>

\* identity handler, line 122: `await tokenProvider()` settles
ResumeTokenProvider(i, D) ==
    /\ pc[i] = "tokenProvider"
    /\ \E o \in Outcomes(D.tokens, D) :
         /\ Settle(i, o)
         /\ \/ /\ o.kind = "return"
               /\ mem' = [mem EXCEPT ![i].token = o.value]
               /\ Await(i, "connectionProvider", <<>>)
            \/ /\ o.kind = "throw"
               /\ Catch(i, o.error)
               /\ UNCHANGED mem
    /\ UNCHANGED <<tool, args, filterCall>>

\* lines 36, 90, 123: `await connectionProvider()` settles
ResumeConnectionProvider(i, D) ==
    /\ pc[i] = "connectionProvider"
    /\ \E o \in Outcomes(D.connections, D) :
         /\ Settle(i, o)
         /\ \/ /\ o.kind = "throw"
               /\ Catch(i, o.error)
               /\ UNCHANGED mem
            \/ /\ o.kind = "return"
               /\ tool[i] # "core_get_identity_ids"
               /\ mem' = [mem EXCEPT ![i].connection = o.value]
               /\ IF o.value = None
                  THEN Catch(i, TypeError("getCoreApi"))
                  ELSE Await(i, "getCoreApi", <<>>)
            \/ /\ o.kind = "return"
               /\ tool[i] = "core_get_identity_ids"
               /\ mem' = [mem EXCEPT ![i].connection = o.value]
               /\ IF o.value = None
                  THEN Catch(i, TypeError("serverUrl"))
                  ELSE IF mem[i].token = None
                  THEN Catch(i, TypeError("token"))
                  ELSE Await(i, "fetch",
                             fetchRequest(o.value[1], mem[i].token[1],
                                          args[i][1].searchFilter))
    /\ UNCHANGED <<tool, args, filterCall>>

\* lines 37-38, 91-92: `await connection.getCoreApi()` settles
ResumeGetCoreApi(i, D) ==
    /\ pc[i] = "getCoreApi"
    /\ \E o \in Outcomes(OptionOf({"coreApi"}), D) :
         /\ Settle(i, o)
         /\ \/ /\ o.kind = "throw"
               /\ Catch(i, o.error)
            \/ /\ o.kind = "return"
               /\ o.value = None
               /\ Catch(i, TypeError(IF tool[i] = "core_list_project_teams"
                                     THEN "getTeams" ELSE "getProjects"))
            \/ /\ o.kind = "return"
               /\ o.value # None
               /\ tool[i] = "core_list_project_teams"
               /\ Await(i, "getTeams",
                        <<args[i][1].project, args[i][1].mine, args[i][1].top,
                          args[i][1].skip, FALSE>>)
            \/ /\ o.kind = "return"
               /\ o.value # None
               /\ tool[i] = "core_list_projects"
               /\ Await(i, "getProjects",
                        <<args[i][1].stateFilter, args[i][1].top, args[i][1].skip,
                          args[i][1].continuationToken, FALSE>>)
    /\ UNCHANGED <<tool, args, mem, filterCall>>

\* lines 38-66: `await coreApi.getTeams(...)` settles
ResumeGetTeams(i, D) ==
    /\ pc[i] = "getTeams"
    /\ \E o \in Outcomes(D.teams, D) :
         /\ Settle(i, o)
         /\ \/ /\ o.kind = "throw"
               /\ Catch(i, o.error)
            \/ /\ o.kind = "return"
               /\ ReturnResponse(i, teamsResponse(args[i][1], o.value))
    /\ UNCHANGED <<tool, args, mem, filterCall>>

\* lines 92-102: `await coreApi.getProjects(...)` settles
ResumeGetProjects(i, D) ==
    /\ pc[i] = "getProjects"
    /\ \E o \in Outcomes(D.projects, D) :
         /\ Settle(i, o)
         /\ \/ /\ o.kind = "throw"
               /\ Catch(i, o.error)
            \/ /\ o.kind = "return"
               /\ ReturnResponse(i, projectsResponse(args[i][1], o.value))
    /\ UNCHANGED <<tool, args, mem, filterCall>>

\* lines 133-145: `await fetch(...)` settles
ResumeFetch(i, D) ==
    /\ pc[i] = "fetch"
    /\ \E o \in Outcomes(D.responses, D) :
         /\ Settle(i, o)
         /\ \/ /\ o.kind = "throw"
               /\ Catch(i, o.error)
               /\ UNCHANGED mem
            \/ /\ o.kind = "return"
               /\ o.value = None
               /\ Catch(i, TypeError("ok"))
               /\ UNCHANGED mem
            \/ /\ o.kind = "return"
               /\ o.value # None
               /\ mem' = [mem EXCEPT ![i].response = o.value]
               /\ IF o.value[1].ok
                  THEN Await(i, "json", <<>>)
                  ELSE Await(i, "text", <<>>)
    /\ UNCHANGED <<tool, args, filterCall>>

\* lines 141-142: `await response.text()` settles
ResumeText(i, D) ==
    /\ pc[i] = "text"
    /\ \E o \in Outcomes(D.errorTexts, D) :
         /\ Settle(i, o)
         /\ \/ /\ o.kind = "throw"
               /\ Catch(i, o.error)
            \/ /\ o.kind = "return"
               /\ Catch(i, httpError(mem[i].response[1], o.value))
    /\ UNCHANGED <<tool, args, mem, filterCall>>

\* lines 145-161: `await response.json()` settles
ResumeJson(i, D) ==
    /\ pc[i] = "json"
    /\ \E o \in Outcomes(D.bodies, D) :
         /\ Settle(i, o)
         /\ \/ /\ o.kind = "throw"
               /\ Catch(i, o.error)
            \/ /\ o.kind = "return"
               /\ ReturnResponse(i, identitiesResponse(o.value))
    /\ UNCHANGED <<tool, args, mem, filterCall>>

Step(i, D) ==
    \/ Invoke(i, D)
    \/ ResumeTokenProvider(i, D)
    \/ ResumeConnectionProvider(i, D)
    \/ ResumeGetCoreApi(i, D)
    \/ ResumeGetTeams(i, D)
    \/ ResumeGetProjects(i, D)
    \/ ResumeFetch(i, D)
    \/ ResumeText(i, D)
    \/ ResumeJson(i, D)

\* one invocation, with every argument and outcome of Domain
Next == Step(1, Domain)

Spec == Init /\ [][Next]_vars

\* MaxInv invocations that the host may interleave in any way
NextConc == \E i \in Invs : Step(i, SmallDomain)

SpecConc == Init /\ [][NextConc]_vars

(***************************************************************************)
(* The Project Name Filter called on its own.                              *)
(***************************************************************************)
FilterProjectKinds == ProjectKinds \cup {Project("p3", Some(""))}

FilterStrings == {"", "a", "AB", "b", "x"}

\* the caller passes a project list and a filter string
CallFilter ==
    /\ filterCall.state = "idle"
    /\ \E ps \in SeqsUpTo(FilterProjectKinds, MaxFilterProjects), f \in FilterStrings :
         filterCall' = [state |-> "called", projects |-> ps, projectNameFilter |-> f]
    /\ UNCHANGED <<tool, args, pc, mem, calls, rets, result>>

\* filterProjectsByName returns
ReturnFilter ==
    /\ filterCall.state = "called"
    /\ filterCall' = [state |-> "returned",
                      projects |-> filterCall.projects,
                      projectNameFilter |-> filterCall.projectNameFilter,
                      returned |-> filterProjectsByName(filterCall.projects,
                                                        filterCall.projectNameFilter)]
    /\ UNCHANGED <<tool, args, pc, mem, calls, rets, result>>

NextFilter == CallFilter \/ ReturnFilter

SpecFilter == Init /\ [][NextFilter]_vars

(***************************************************************************)
(* Vocabulary of the properties.                                           *)
(***************************************************************************)
StartsWith(s, pre) == Len(pre) <= Len(s) /\ SubSeq(s, 1, Len(pre)) = pre

EndsWith(s, suf) ==
    Len(suf) <= Len(s) /\ SubSeq(s, Len(s) - Len(suf) + 1, Len(s)) = suf

Contains(s, sub) ==
    \E k \in 1..(Len(s) - Len(sub) + 1) : SubSeq(s, k, k + Len(sub) - 1) = sub

Occurrences(s, sub) ==
    Cardinality({k \in 1..(Len(s) - Len(sub) + 1) : SubSeq(s, k, k + Len(sub) - 1) = sub})

Done(i) == pc[i] = "done"
Response(i) == result[i][1]
IsError(i) == "isError" \in DOMAIN Response(i)
Text(i) == Response(i).content[1].text
Args(i) == args[i][1]
LastOp(i) == calls[i][Len(calls[i])].op
LastRet(i) == rets[i][Len(rets[i])]

\* the last awaited call returned `v`
Returned(i, op) == Done(i) /\ LastOp(i) = op /\ LastRet(i).kind = "return"

\* the handler got as far as looking at the remote result
GotResult(i) ==
    Returned(i, "getTeams") \/ Returned(i, "getProjects") \/ Returned(i, "json")

\* the remote result is the empty one the spec calls a soft failure
EmptyResult(i) ==
    \/ Returned(i, "getTeams") /\ LastRet(i).value = None
    \/ Returned(i, "getProjects") /\ LastRet(i).value = None
    \/ /\ Returned(i, "json")
       /\ \/ LastRet(i).value = None
          \/ /\ "value" \in DOMAIN LastRet(i).value[1]
             /\ LastRet(i).value[1].value = <<>>

SoftFailureResponse(message) ==
    [content |-> <<[type |-> "text", text |-> Some(message)]>>, isError |-> TRUE]

(***************************************************************************)
(* C1: every invocation that ends, ends by returning a response of the     *)
(* shared shape: exactly one content item of type "text" whose text is a   *)
(* string, isError (true) present exactly on soft and hard failures.       *)
(* Stated as the claim states it; the code breaks it when the identity     *)
(* body has no `value`.                                                    *)
(***************************************************************************)
C1_WellFormedResponse ==
    \A i \in Invs :
        Done(i) =>
            /\ result[i] # None
            /\ DOMAIN Response(i) \subseteq {"content", "isError"}
            /\ Len(Response(i).content) = 1
            /\ Response(i).content[1].type = "text"
            /\ Text(i) # None
            /\ IsError(i) <=> (~GotResult(i) \/ EmptyResult(i))
            /\ IsError(i) => Response(i).isError = TRUE

(***************************************************************************)
(* C2: a null teams result, a null projects result, a null identity body   *)
(* or an empty `value` array give isError:true with the exact fixed text,  *)
(* no operation prefix, and no exception was thrown on the way.            *)
(***************************************************************************)
C2_SoftFailure ==
    \A i \in Invs :
        /\ (Returned(i, "getTeams") /\ LastRet(i).value = None)
               => Response(i) = SoftFailureResponse("No teams found")
        /\ (Returned(i, "getProjects") /\ LastRet(i).value = None)
               => Response(i) = SoftFailureResponse("No projects found")
        /\ (Returned(i, "json") /\ EmptyResult(i))
               => Response(i) = SoftFailureResponse("No identities found")
        /\ (Done(i) /\ EmptyResult(i))
               => \A k \in 1..Len(rets[i]) : rets[i][k].kind = "return"

C2_Witness ==
    /\ Returned(1, "json")
    /\ LastRet(1).value # None
    /\ "value" \in DOMAIN LastRet(1).value[1]
    /\ LastRet(1).value[1].value = <<>>
    /\ IsError(1)

(***************************************************************************)
(* C3 as claimed: after a thrown value, the text is the operation prefix   *)
(* followed by the thrown value's message when it carries one, and by      *)
(* "Unknown error occurred" when it carries none.                          *)
(***************************************************************************)
ThrewLast(i) == Done(i) /\ LastRet(i).kind = "throw"

C3_MessageWhenCarried ==
    \A i \in Invs :
        ThrewLast(i) =>
            /\ IsError(i)
            /\ Text(i) = Some(Prefix(tool[i])
                              \o (IF LastRet(i).error.message # ""
                                  THEN LastRet(i).error.message
                                  ELSE "Unknown error occurred"))

(***************************************************************************)
(* C3 amended: after a thrown value, the response has isError:true and its *)
(* text is the operation prefix followed by the thrown value's message     *)
(* when the value is an Error instance (even an empty message), and by     *)
(* "Unknown error occurred" when it is not an Error instance (even when it *)
(* carries a message).                                                     *)
(***************************************************************************)
C3_MessageOfErrorInstances ==
    \A i \in Invs :
        ThrewLast(i) =>
            /\ IsError(i)
            /\ Response(i).isError = TRUE
            /\ LET e == LastRet(i).error
                   prefix == CASE tool[i] = "core_list_project_teams" ->
                                      "Error fetching project teams: "
                               [] tool[i] = "core_list_projects" ->
                                      "Error fetching projects: "
                               [] tool[i] = "core_get_identity_ids" ->
                                      "Error fetching identities: "
               IN  /\ e.instanceofError => Text(i) = Some(prefix \o e.message)
                   /\ ~e.instanceofError
                          => Text(i) = Some(prefix \o "Unknown error occurred")

C3_Witness ==
    /\ ThrewLast(1)
    /\ tool[1] = "core_list_project_teams"
    /\ LastOp(1) = "getTeams"
    /\ LastRet(1).error = NonError("boom")
    /\ Text(1) = Some("Error fetching project teams: Unknown error occurred")

(***************************************************************************)
(* Case-insensitive containment, stated on the characters themselves.      *)
(***************************************************************************)
SameLetter(c, d) ==
    \/ c = d
    \/ \E k \in 1..26 :
           {c, d} = {CharAt(UpperCaseLetters, k), CharAt(LowerCaseLetters, k)}

ContainsIgnoringCase(name, f) ==
    \E k \in 0..(Len(name) - Len(f)) :
        \A j \in 1..Len(f) : SameLetter(CharAt(name, k + j), CharAt(f, j))

NameMatches(project, f) ==
    \E n \in 1..Len(project) :
        /\ project[n][1] = "name"
        /\ project[n][2] # None
        /\ ContainsIgnoringCase(project[n][2][1], f)

\* `out` is the subsequence of `ps`, in order, of the projects matching f
IsMatchingSubsequence(out, ps, f) ==
    LET matching == {k \in 1..Len(ps) : NameMatches(ps[k], f)}
    IN  /\ Len(out) = Cardinality(matching)
        /\ \E idx \in [1..Len(out) -> 1..Len(ps)] :
               /\ \A m, n \in 1..Len(out) : m < n => idx[m] < idx[n]
               /\ {idx[n] : n \in 1..Len(out)} = matching
               /\ \A n \in 1..Len(out) : out[n] = ps[idx[n]]

(***************************************************************************)
(* C4: filterProjectsByName returns, for every project list and filter,    *)
(* exactly the subsequence, in input order, of the projects that have a    *)
(* name containing the filter case-insensitively; so no match gives the    *)
(* empty list and all matching gives the input list unchanged.             *)
(***************************************************************************)
C4_FilterIsMatchingSubsequence ==
    filterCall.state = "returned" =>
        LET ps == filterCall.projects
            f == filterCall.projectNameFilter
            out == filterCall.returned
        IN  /\ IsMatchingSubsequence(out, ps, f)
            /\ (\A k \in 1..Len(ps) : ~NameMatches(ps[k], f)) => out = <<>>
            /\ (\A k \in 1..Len(ps) : NameMatches(ps[k], f)) => out = ps

C4_Witness ==
    /\ filterCall.state = "returned"
    /\ filterCall.projectNameFilter = "AB"
    /\ filterCall.projects =
           <<Project("p2", Some("b")), Project("p1", Some("Ab")), Project("p0", None)>>
    /\ filterCall.returned = <<Project("p1", Some("Ab"))>>

(***************************************************************************)
(* The team handler's success case: getTeams returned a list.              *)
(***************************************************************************)
TeamsListed(i) == Returned(i, "getTeams") /\ LastRet(i).value # None
TeamCount(i) == Len(LastRet(i).value[1])

\* the effective values as C5 defines them: the supplied value, or the
\* default when none is supplied
SuppliedOr(n, d) == IF n = None THEN d ELSE n[1]

MoreResultsEnding(i, nextSkip) ==
    EndsWith(Text(i)[1],
             ". There may be more teams - use 'skip=" \o ToString(nextSkip)
             \o "' to get the next batch.")

(***************************************************************************)
(* C5: the note states the count, states the number skipped exactly when   *)
(* the effective skip is positive and, when the count equals the effective *)
(* top (the supplied top, or 100 when none is supplied), warns of more     *)
(* teams and suggests skip + count.  Stated as the claim states it; the    *)
(* code breaks it for top = 0.                                             *)
(***************************************************************************)
C5_PaginationNote ==
    \A i \in Invs :
        TeamsListed(i) =>
            LET count == TeamCount(i)
                top == SuppliedOr(Args(i).top, 100)
                skip == SuppliedOr(Args(i).skip, 0)
            IN  /\ ~IsError(i)
                /\ Contains(Text(i)[1],
                            "\nPagination info: Returned " \o ToString(count) \o " teams")
                /\ Contains(Text(i)[1], " (skipped first " \o ToString(skip) \o ")")
                       <=> skip > 0
                /\ count = top => MoreResultsEnding(i, skip + count)

(***************************************************************************)
(* C6: a non-null projects result gives a success whose text is exactly    *)
(* the formatted JSON of the filtered list when projectNameFilter is       *)
(* supplied and non-empty, and of the whole list in remote order           *)
(* otherwise, whatever top and skip are; nothing is appended.              *)
(***************************************************************************)
C6_ProjectListing ==
    \A i \in Invs :
        (Returned(i, "getProjects") /\ LastRet(i).value # None) =>
            LET ps == LastRet(i).value[1]
                f == Args(i).projectNameFilter
            IN  /\ ~IsError(i)
                /\ Text(i) # None
                /\ IF f # None /\ f[1] # ""
                   THEN \E out \in SeqsUpTo(ProjectKinds, Len(ps)) :
                            /\ IsMatchingSubsequence(out, ps, f[1])
                            /\ Text(i)[1] = JSONArray(out)
                   ELSE Text(i)[1] = JSONArray(ps)
                /\ ~Contains(Text(i)[1], "Pagination info")

C6_Witness ==
    /\ Returned(1, "getProjects")
    /\ Args(1).top = Some(1)
    /\ Args(1).projectNameFilter = Some("")
    /\ LastRet(1).value = Some(<<Project("p0", None), Project("p1", Some("Ab"))>>)
    /\ ~IsError(1)
    /\ Contains(Text(1)[1], "p0") /\ Contains(Text(1)[1], "p1")

(***************************************************************************)
(* The identity handler's projection case: the GET succeeded and the       *)
(* parsed body has a non-empty `value`.                                    *)
(***************************************************************************)
IdentitiesListed(i) ==
    /\ Returned(i, "json")
    /\ LastRet(i).value # None
    /\ "value" \in DOMAIN LastRet(i).value[1]
    /\ LastRet(i).value[1].value # <<>>

IdentityValue(i) == LastRet(i).value[1].value

FieldMark(key) == Quote(key) \o ": "

(***************************************************************************)
(* C7 as claimed: the text serialises a list as long as `value` in which   *)
(* every entry has exactly the three fields id, displayName, descriptor.   *)
(***************************************************************************)
C7_ExactlyThreeFields ==
    \A i \in Invs :
        IdentitiesListed(i) =>
            /\ ~IsError(i)
            /\ Text(i) # None
            /\ \A key \in {"id", "displayName", "descriptor"} :
                   Occurrences(Text(i)[1], FieldMark(key)) = Len(IdentityValue(i))
            /\ Occurrences(Text(i)[1], "\": ") = 3 * Len(IdentityValue(i))

\* the fields the serialised entry of `identity` has: each of the three
\* whose source property the identity carries, in this order
ProjectedFields(identity) ==
    LET renamed == << <<"id", "id">>, <<"displayName", "providerDisplayName">>,
                      <<"descriptor", "descriptor">> >>
        has(source) == \E n \in 1..Len(identity) : identity[n][1] = source
        valueOf(source) ==
            identity[CHOOSE n \in 1..Len(identity) : identity[n][1] = source][2]
        present == SelectSeq(renamed, LAMBDA r : has(r[2]))
    IN  [n \in 1..Len(present) |-> <<present[n][1], valueOf(present[n][2])>>]

(***************************************************************************)
(* C7 amended: when `value` is a non-empty list of identity objects the    *)
(* handler returns a success whose text serialises a list of the same      *)
(* length and order, where each entry has no field other than id,          *)
(* displayName and descriptor, and has each of these exactly when the      *)
(* input entry carries id, providerDisplayName, descriptor respectively    *)
(* (a field whose source is absent is left out of the serialisation), with *)
(* the source's value; additional input fields never appear.               *)
(***************************************************************************)
C7_AtMostThreeFields ==
    \A i \in Invs :
        IdentitiesListed(i) =>
            LET value == IdentityValue(i)
                expected == [n \in 1..Len(value) |-> ProjectedFields(value[n])]
                fields == {<<n, m>> \in (1..Len(value)) \X (1..3) :
                               m <= Len(expected[n])}
            IN  /\ ~IsError(i)
                /\ Text(i) = Some(JSONArray(expected))
                /\ Occurrences(Text(i)[1], "\": ") = Cardinality(fields)
                /\ ~Contains(Text(i)[1], "providerDisplayName")
                /\ ~Contains(Text(i)[1], "isActive")

C7_Witness ==
    /\ IdentitiesListed(1)
    /\ IdentityValue(1) = <<Bob, Anonymous>>
    /\ ~IsError(1)
    /\ Occurrences(Text(1)[1], FieldMark("displayName")) = 1
    /\ Occurrences(Text(1)[1], "\": ") = 5

(***************************************************************************)
(* C8 as claimed: the note ends with the more-results warning when the     *)
(* count equals the effective top, with "(all teams in project)" exactly   *)
(* when the effective skip is 0 and the count is below the effective top,  *)
(* and plainly otherwise, the plain ending occurring only when the count   *)
(* is below the effective top and skip > 0.                                *)
(***************************************************************************)
AllTeamsEnding(i) == EndsWith(Text(i)[1], " (all teams in project).")

AnyMoreResultsEnding(i) == EndsWith(Text(i)[1], "' to get the next batch.")

PlainEnding(i) ==
    /\ EndsWith(Text(i)[1], ".")
    /\ ~AllTeamsEnding(i)
    /\ ~AnyMoreResultsEnding(i)

ExactlyOneEnding(i) ==
    Cardinality({e \in {"more", "all", "plain"} :
                    \/ e = "more" /\ AnyMoreResultsEnding(i)
                    \/ e = "all" /\ AllTeamsEnding(i)
                    \/ e = "plain" /\ PlainEnding(i)}) = 1

\* the effective values the handler computes (none supplied, or 0: default)
EffectiveTop(i) ==
    IF Args(i).top = None \/ Args(i).top = Some(0) THEN 100 ELSE Args(i).top[1]

EffectiveSkip(i) ==
    IF Args(i).skip = None THEN 0 ELSE Args(i).skip[1]

C8_PlainEndingOnlyBelowTop ==
    \A i \in Invs :
        TeamsListed(i) =>
            /\ ExactlyOneEnding(i)
            /\ AnyMoreResultsEnding(i) <=> TeamCount(i) = EffectiveTop(i)
            /\ AllTeamsEnding(i)
                   <=> (EffectiveSkip(i) = 0 /\ TeamCount(i) < EffectiveTop(i))
            /\ PlainEnding(i)
                   => (TeamCount(i) < EffectiveTop(i) /\ EffectiveSkip(i) > 0)
            /\ AllTeamsEnding(i)
                   => (~Contains(Text(i)[1], "(skipped first")
                       /\ ~AnyMoreResultsEnding(i))

(***************************************************************************)
(* C8 amended: with effective top = the supplied top (100 when none or 0   *)
(* is supplied) and effective skip = the supplied skip (0 when none), the  *)
(* note ends in exactly one of three ways: the more-results warning        *)
(* exactly when the count equals the effective top; "(all teams in         *)
(* project)" exactly when the effective skip is 0 and the count is below   *)
(* the effective top; the plain ending in every other case, that is when   *)
(* the count is below the effective top and the effective skip is not 0,   *)
(* or when the count exceeds the effective top.  The complete-set          *)
(* statement never appears with a skipped-count mention or the warning.    *)
(***************************************************************************)
C8_PlainEndingOtherwise ==
    \A i \in Invs :
        TeamsListed(i) =>
            /\ ExactlyOneEnding(i)
            /\ AnyMoreResultsEnding(i) <=> TeamCount(i) = EffectiveTop(i)
            /\ AllTeamsEnding(i)
                   <=> (EffectiveSkip(i) = 0 /\ TeamCount(i) < EffectiveTop(i))
            /\ PlainEnding(i)
                   <=> \/ TeamCount(i) < EffectiveTop(i) /\ EffectiveSkip(i) # 0
                       \/ TeamCount(i) > EffectiveTop(i)
            /\ AllTeamsEnding(i)
                   => (~Contains(Text(i)[1], "(skipped first")
                       /\ ~AnyMoreResultsEnding(i))

C8_Witness ==
    /\ TeamsListed(1)
    /\ Args(1).top = Some(2)
    /\ Args(1).skip = None
    /\ TeamCount(1) = 3
    /\ PlainEnding(1)

(***************************************************************************)
(* The identity handler's HTTP failure case: fetch returned a response     *)
(* whose status is not a success.                                          *)
(***************************************************************************)
HttpFailed(i) ==
    /\ Done(i)
    /\ tool[i] = "core_get_identity_ids"
    /\ Len(rets[i]) >= 3
    /\ rets[i][3].kind = "return"
    /\ rets[i][3].value # None
    /\ ~rets[i][3].value[1].ok

Ops(i) == [k \in 1..Len(calls[i]) |-> calls[i][k].op]

(***************************************************************************)
(* C9 as claimed: after a non-success status the handler reads the body as *)
(* text, parses no JSON, and the response has isError:true with text       *)
(* "Error fetching identities: HTTP <status>: <body>".                     *)
(***************************************************************************)
C9_StatusAndBodyAlways ==
    \A i \in Invs :
        HttpFailed(i) =>
            /\ Ops(i) = <<"tokenProvider", "connectionProvider", "fetch", "text">>
            /\ IsError(i)
            /\ Text(i) # None
            /\ StartsWith(Text(i)[1],
                          "Error fetching identities: HTTP "
                          \o ToString(rets[i][3].value[1].status) \o ": ")
            /\ Text(i) # Some("No identities found")

(***************************************************************************)
(* C9 amended: after a non-success status the handler reads the body as    *)
(* text, parses no JSON and projects nothing, and the response has         *)
(* isError:true and is never the soft failure nor a success; when the body *)
(* read returns, the text is "Error fetching identities: HTTP <status>:    *)
(* <body>"; when the body read itself throws, the text is "Error fetching  *)
(* identities: " followed by that thrown value's message (an Error         *)
(* instance) or "Unknown error occurred" (any other value).                *)
(***************************************************************************)
C9_StatusAndBodyWhenRead ==
    \A i \in Invs :
        HttpFailed(i) =>
            /\ Ops(i) = <<"tokenProvider", "connectionProvider", "fetch", "text">>
            /\ IsError(i)
            /\ Response(i).isError = TRUE
            /\ Text(i) # Some("No identities found")
            /\ rets[i][4].kind = "return"
                   => Text(i) = Some("Error fetching identities: HTTP "
                                     \o ToString(rets[i][3].value[1].status)
                                     \o ": " \o rets[i][4].value)
            /\ (rets[i][4].kind = "throw" /\ rets[i][4].error.instanceofError)
                   => Text(i) = Some("Error fetching identities: "
                                     \o rets[i][4].error.message)
            /\ (rets[i][4].kind = "throw" /\ ~rets[i][4].error.instanceofError)
                   => Text(i) = Some("Error fetching identities: Unknown error occurred")

C9_Witness ==
    /\ HttpFailed(1)
    /\ rets[1][3].value[1].status = 404
    /\ rets[1][4] = Return("Not Found")
    /\ Text(1) = Some("Error fetching identities: HTTP 404: Not Found")

(***************************************************************************)
(* C10: each invocation makes its calls once each and in the fixed order   *)
(* (connection, core-API client, one getTeams/getProjects; or token,       *)
(* connection, one GET, then one read of the body); after a throw or a     *)
(* non-success GET nothing more is acquired or requested and the failure   *)
(* is what is returned; and whatever the interleaving, two invocations     *)
(* with the same tool, arguments and collaborator results return the same  *)
(* response.                                                               *)
(***************************************************************************)
IsPrefix(p, q) == Len(p) <= Len(q) /\ SubSeq(q, 1, Len(p)) = p

CallOrders(t) ==
    CASE t = "none" -> {<<>>}
      [] t = "core_list_project_teams" ->
             {<<"connectionProvider", "getCoreApi", "getTeams">>}
      [] t = "core_list_projects" ->
             {<<"connectionProvider", "getCoreApi", "getProjects">>}
      [] t = "core_get_identity_ids" ->
             {<<"tokenProvider", "connectionProvider", "fetch", "json">>,
              <<"tokenProvider", "connectionProvider", "fetch", "text">>}

C10_SingleAttemptInOrder ==
    /\ \A i \in Invs :
           /\ \E order \in CallOrders(tool[i]) : IsPrefix(Ops(i), order)
           /\ Len(rets[i]) = IF pc[i] \in {"idle", "done"}
                             THEN Len(calls[i]) ELSE Len(calls[i]) - 1
           /\ \A k \in 1..Len(rets[i]) :
                  rets[i][k].kind = "throw"
                      => /\ k = Len(calls[i])
                         /\ Done(i)
                         /\ IsError(i)
                         /\ StartsWith(Text(i)[1], "Error fetching ")
           /\ HttpFailed(i) => (Len(calls[i]) = 4 /\ calls[i][4].op = "text" /\ IsError(i))
           /\ (Len(calls[i]) >= 4 /\ calls[i][4].op = "text")
                  => (~rets[i][3].value[1].ok /\ (Done(i) => IsError(i)))
    /\ \A i, j \in Invs :
           (tool[i] = tool[j] /\ args[i] = args[j] /\ rets[i] = rets[j])
               => (pc[i] = pc[j] /\ calls[i] = calls[j] /\ result[i] = result[j])

C10_Witness ==
    /\ Done(1) /\ tool[1] = "core_list_projects" /\ ThrewLast(1) /\ Len(calls[1]) = 2
    /\ pc[2] = "json" /\ Len(calls[2]) = 4 /\ Len(rets[2]) = 3

====
